---- MODULE Spec2Model ----
(***************************************************************************)
(* Model of generate_docs.py: the comment extractor (parse_toml_comments), *)
(* the section enricher (enrich_toml_data), the formula parser             *)
(* (parse_check_formula) and the per-file loop of process_toml_files.      *)
(*                                                                         *)
(* A Python str is a sequence of characters (one-character strings).       *)
(* Python values stored in a document are tagged records: Str(text),       *)
(* Num(text) (text as str() prints it), the EnrichedValue dict             *)
(* Enriched(value, unit, description), and Ref(id), a reference to the     *)
(* section dict object heap[id].  A dict is a function from keys to values.*)
(***************************************************************************)
EXTENDS Integers, Sequences, FiniteSets

VARIABLES
    pc,               \* position of the running function
    formula_str,      \* parse_check_formula: its argument
    parsed,           \* parse_check_formula: its return value
    toml_text,        \* parse_toml_comments: the lines of the file
    read_fail,        \* parse_toml_comments: whether open/read raises, and after how many lines
    comments,         \* parse_toml_comments: its return value (CommentMetadata)
    raw_data,         \* process_toml_files: raw_data of the current file
    data,             \* process_toml_files / enrich_toml_data: data
    heap,             \* the section dict objects raw_data and data point to
    heap0,            \* heap as tomli.load / the caller built it (history)
    reached,          \* process_toml_files: last statement the loop body reached
    additional_checks,\* process_toml_files: additional_checks of the current file
    toml_files,       \* the *.toml files of input_dir (names, ordered as integers)
    todo,             \* process_toml_files: files the for loop has not reached
    attempted,        \* files the loop body was entered for, in order
    written,          \* HTML pages written to the output directory
    equipment_list,   \* process_toml_files: equipment_list
    errors,           \* files for which "Error processing" was printed
    index_written     \* whether index.html was written

vars == <<pc, formula_str, parsed, toml_text, read_fail, comments, raw_data,
          data, heap, heap0, reached, additional_checks, toml_files, todo, attempted, written,
          equipment_list, errors, index_written>>

formulaVars == <<formula_str, parsed>>
commentVars == <<toml_text, read_fail, comments>>
docVars     == <<raw_data, data, heap, heap0, reached, additional_checks>>
runVars     == <<toml_files, todo, attempted, written, equipment_list, errors, index_written>>

\* Bounds
MaxLen   == 4     \* length of a formula string
MaxLines == 2     \* lines of a file given to parse_toml_comments alone
MaxFiles == 2     \* *.toml files in the input directory

\* value of a variable the running specification does not use
Idle == [idle |-> TRUE]

\* Python None where a str is expected (ParsedFormula.operator, .right)
None == <<"None">>

(***************************************************************************)
(* Python str primitives                                                   *)
(***************************************************************************)
Whitespace == {" ", "\t"}

\* str.strip()
LStart(s) == IF \E i \in 1..Len(s) : s[i] \notin Whitespace
             THEN CHOOSE i \in 1..Len(s) :
                    /\ s[i] \notin Whitespace
                    /\ \A j \in 1..(i-1) : s[j] \in Whitespace
             ELSE Len(s) + 1
REnd(s) == IF \E i \in 1..Len(s) : s[i] \notin Whitespace
           THEN CHOOSE i \in 1..Len(s) :
                  /\ s[i] \notin Whitespace
                  /\ \A j \in (i+1)..Len(s) : s[j] \in Whitespace
           ELSE 0
strip(s) == SubSeq(s, LStart(s), REnd(s))

\* str.find(op) + 1: index of the first occurrence of op in s, 0 if none
Find(s, op) ==
    LET occ == {i \in 1..(Len(s) - Len(op) + 1) : SubSeq(s, i, i + Len(op) - 1) = op}
    IN  IF occ = {} THEN 0 ELSE CHOOSE i \in occ : \A j \in occ : i <= j

\* op in s
Contains(s, op) == Find(s, op) # 0

\* s.split(op, 1)
split1(s, op) ==
    LET i == Find(s, op)
    IN  IF i = 0 THEN <<s>>
        ELSE <<SubSeq(s, 1, i - 1), SubSeq(s, i + Len(op), Len(s))>>

(***************************************************************************)
(* Python values                                                           *)
(***************************************************************************)
Str(text) == [type |-> "str", text |-> text]
Num(text) == [type |-> "num", text |-> text]
Ref(id)   == [type |-> "ref", id |-> id]
Enriched(value, unit, description) ==
    [type |-> "dict", value |-> value, unit |-> unit, description |-> description]

\* isinstance(v, dict)
IsDict(v) == v.type \in {"dict", "ref"}

\* str(v) and repr(v) as an f-string prints them
RECURSIVE PyRepr(_)
PyRepr(v) ==
    IF v.type = "str" THEN <<"'">> \o v.text \o <<"'">>
    ELSE IF v.type = "num" THEN v.text
    ELSE <<"{'value': ">> \o PyRepr(v.value) \o <<", 'unit': '">> \o v.unit
         \o <<"', 'description': '">> \o v.description \o <<"'}">>
PyStr(v) == IF v.type = "str" THEN v.text ELSE PyRepr(v)

(***************************************************************************)
(* parse_check_formula                                                     *)
(***************************************************************************)
operators_short_first == << <<">">>, <<"<">>, <<">", "=">>, <<"<", "=">>, <<"=", "=">>, <<"!", "=">> >>
operators_without_lt == << <<">", "=">>, <<"<", "=">>, <<"=", "=">>, <<"!", "=">>, <<">">> >>
operators == << <<">", "=">>, <<"<", "=">>, <<"=", "=">>, <<"!", "=">>, <<">">>, <<"<">> >>

RECURSIVE ParseFrom(_, _, _)
ParseFrom(s, ops, n) ==
    IF n > Len(ops)
    THEN [left |-> strip(s), operator |-> None, right |-> None, full |-> strip(s)]
    ELSE LET op    == ops[n]
             parts == split1(s, op)
         IN  IF Contains(s, op) /\ Len(parts) = 2
             THEN [left |-> strip(parts[1]), operator |-> op,
                   right |-> strip(parts[2]), full |-> strip(s)]
             ELSE ParseFrom(s, ops, n + 1)

\* lines 83-110
parse_check_formula(formula) ==
    LET unwrapped   == IF formula.type = "dict" THEN formula.value ELSE formula
        formula_str_ == IF unwrapped.type = "str" THEN unwrapped.text ELSE PyStr(unwrapped)
    IN  ParseFrom(formula_str_, operators, 1)

(***************************************************************************)
(* parse_toml_comments                                                     *)
(*                                                                         *)
(* A line is a sequence of characters without its line terminator ('.'     *)
(* never matches it and strip() removes it).  A word token such as "k" or  *)
(* "nominal_force" stands for a run of \w characters.                      *)
(***************************************************************************)
WordChars == {"k", "m", "d", "f", "N", "1", "2", "s", "a", "A", "B", "V1", "float",
              "shaker", "manufacturer", "model", "nominal_force",
              "input_parameters", "additional_checks", "mass", "check"}

AllWs(s, i, j) == \A n \in i..j : s[n] \in Whitespace
AllWord(s, i, j) == \A n \in i..j : s[n] \in WordChars

\* re.match(r'\s*(\w+)\s*=\s*(.+?)\s*#\s*(.+)', line): the groups of the
\* match the backtracking search finds first, or NoMatch.
NoMatch == [matched |-> FALSE]

LineMatch(line) ==
    LET n  == Len(line)
        p  == LStart(line)                       \* \s*  (greedy)
        ks == {j \in p..n : AllWord(line, p, j) /\ (j = n \/ line[j + 1] \notin WordChars)}
    IN  IF ks = {} THEN NoMatch
        ELSE
        LET j  == CHOOSE k \in ks : TRUE         \* (\w+) (greedy)
            es == {e \in (j + 1)..n : AllWs(line, j + 1, e - 1) /\ line[e] = "="}
        IN  IF es = {} THEN NoMatch
            ELSE
            LET e == CHOOSE x \in es : TRUE      \* \s*=
                \* (.+?) may start at a: only blanks lie between '=' and a
                starts == {a \in (e + 1)..n : AllWs(line, e + 1, a - 1)}
                \* the '#' a lazy (.+?) starting at a stops before: the first
                \* one after a, which (.+) needs a character behind
                hashes(a) == {q \in (a + 1)..(n - 1) : line[q] = "#"}
                cands == {a \in starts : hashes(a) # {}}
            IN  IF cands = {} THEN NoMatch
                ELSE
                LET amax == CHOOSE a \in cands : \A c \in cands : c <= a   \* \s* greedy
                    q    == CHOOSE x \in hashes(amax) :
                               \A y \in hashes(amax) : x <= y              \* .+? lazy
                    rest == SubSeq(line, q + 1, n)
                    g    == IF \A i \in 1..Len(rest) : rest[i] \in Whitespace
                            THEN n                                 \* \s* gives one back
                            ELSE q + LStart(rest)
                IN  [matched |-> TRUE,
                     group1  |-> SubSeq(line, p, j),
                     group3  |-> SubSeq(line, g, n)]

\* re.match(r'\[(.+?)\]\s*(.*)', comment)
UnitMatch(comment) ==
    LET closes == {j \in 3..Len(comment) : comment[j] = "]"}
    IN  IF Len(comment) >= 1 /\ comment[1] = "[" /\ closes # {}
        THEN LET j    == CHOOSE x \in closes : \A y \in closes : x <= y
                 rest == SubSeq(comment, j + 1, Len(comment))
             IN  [matched |-> TRUE,
                  group1  |-> SubSeq(comment, 2, j - 1),
                  group2  |-> SubSeq(rest, LStart(rest), Len(rest))]
        ELSE NoMatch

\* the body of "for line in f" for one line
ScanLine(cmts, line) ==
    LET match == LineMatch(line)
    IN  IF ~match.matched THEN cmts
        ELSE LET key        == match.group1
                 comment    == strip(match.group3)
                 unit_match == UnitMatch(comment)
                 entry      == IF unit_match.matched
                               THEN [unit |-> unit_match.group1,
                                     description |-> unit_match.group2]
                               ELSE [unit |-> <<>>, description |-> comment]
             IN  [k \in DOMAIN cmts \cup {key} |-> IF k = key THEN entry ELSE cmts[k]]

RECURSIVE ScanLines(_, _, _)
ScanLines(cmts, lines, n) ==
    IF n = 0 THEN cmts
    ELSE CHOOSE after \in {ScanLine(before, lines[n]) :
                              before \in {ScanLines(cmts, lines, n - 1)}} : TRUE

\* fail says whether open() or the iteration over f raises, and after how
\* many lines were delivered (0: open() itself failed)
NoFailure == [raises |-> FALSE, after |-> 0]
EmptyDict == <<>>

parse_toml_comments(lines, fail) ==
    LET comments0 == EmptyDict                    \* line 24
        scanned   == IF fail.raises THEN fail.after ELSE Len(lines)
    IN  ScanLines(comments0, lines, scanned)      \* except: print; return comments


(***************************************************************************)
(* enrich_toml_data                                                        *)
(***************************************************************************)
additional_checks_name == <<"additional_checks">>
input_parameters_name  == <<"input_parameters">>
shaker_name            == <<"shaker">>

\* lines 61-69: the loop over the keys of one section dict
EnrichDict_wrap_all(d, cmts) ==
    [key \in DOMAIN d |->
        IF key \in DOMAIN cmts
        THEN Enriched(d[key], cmts[key].unit, cmts[key].description)
        ELSE Enriched(d[key], <<>>, <<>>)]
EnrichDict(d, cmts) ==
    [key \in DOMAIN d |->
        IF key \in DOMAIN cmts
        THEN Enriched(d[key], cmts[key].unit, cmts[key].description)
        ELSE d[key]]

\* The section dicts the loop of lines 57-60 reaches through d
EnrichTargets(d, exclude_sections) ==
    {d[section_name].id : section_name \in
        {n \in DOMAIN d : n \notin exclude_sections /\ d[n].type = "ref"}}

\* enrich_toml_data(d, cmts, exclude_sections): it assigns into the section
\* dicts d refers to and returns d itself, so its effect is the new heap.
enrich_toml_data(d, h, cmts, exclude_sections) ==
    [id \in DOMAIN h |->
        IF id \in EnrichTargets(d, exclude_sections)
        THEN EnrichDict(h[id], cmts)
        ELSE h[id]]

\* exclude_sections=None
default_exclude_sections == {additional_checks_name}

(***************************************************************************)
(* process_toml_files                                                      *)
(***************************************************************************)
\* key <sp> = <sp> value <sp> # <sp> comment, sp a run of blanks
AssignLine(key, value, sp, comment) == key \o sp \o <<"=">> \o sp \o value \o sp \o <<"#">> \o sp \o comment
BracketComment(unit, description) == <<"[">> \o unit \o <<"]">> \o <<" ">> \o description

Put(f, k, v) == [x \in DOMAIN f \cup {k} |-> IF x = k THEN v ELSE f[x]]

\* The text of a source file, entry by entry: a table header or an
\* assignment with or without a same-line comment.
Header(name) == [kind |-> "header", name |-> name]
Assign(key, value) == [kind |-> "assign", key |-> key, value |-> value,
                       commented |-> FALSE, comment |-> <<>>]
AssignC(key, value, comment) == [kind |-> "assign", key |-> key, value |-> value,
                                 commented |-> TRUE, comment |-> comment]

ValueText(v) == IF v.type = "str" THEN <<"\"">> \o v.text \o <<"\"">> ELSE v.text
RenderEntry(e) ==
    IF e.kind = "header" THEN <<"[">> \o e.name \o <<"]">>
    ELSE IF e.commented
         THEN AssignLine(e.key, ValueText(e.value), <<" ">>, e.comment)
         ELSE e.key \o <<" ", "=", " ">> \o ValueText(e.value)
Render(file) == [i \in 1..Len(file) |-> RenderEntry(file[i])]

\* tomli.load(f): raw_data, its section tables being the objects heap[name]
LoadEntry(prev, e) ==
    IF e.kind = "header"
    THEN [top  |-> Put(prev.top, e.name, Ref(e.name)),
          heap |-> Put(prev.heap, e.name, EmptyDict),
          cur  |-> e.name]
    ELSE IF prev.cur = <<>>
    THEN [prev EXCEPT !.top = Put(prev.top, e.key, e.value)]
    ELSE [prev EXCEPT !.heap = Put(prev.heap, prev.cur,
                                   Put(prev.heap[prev.cur], e.key, e.value))]
RECURSIVE LoadFrom(_, _)
LoadFrom(file, n) ==
    IF n = 0 THEN [top |-> EmptyDict, heap |-> EmptyDict, cur |-> <<>>]
    ELSE CHOOSE after \in {LoadEntry(before, file[n]) :
                              before \in {LoadFrom(file, n - 1)}} : TRUE
tomli_load(file) == LoadFrom(file, Len(file))

\* comments.get(key, {}).get(field, '')
CommentUnit(cmts, key) == IF key \in DOMAIN cmts THEN cmts[key].unit ELSE <<>>
CommentDescription(cmts, key) == IF key \in DOMAIN cmts THEN cmts[key].description ELSE <<>>

\* lines 160-167
ParsedChecks(raw, h, cmts) ==
    IF additional_checks_name \in DOMAIN raw
    THEN LET checks == h[raw[additional_checks_name].id]
         IN  [check_name \in DOMAIN checks |->
                LET p == parse_check_formula(checks[check_name])
                IN  [left |-> p.left, operator |-> p.operator, right |-> p.right,
                     full |-> p.full,
                     unit |-> CommentUnit(cmts, check_name),
                     description |-> CommentDescription(cmts, check_name)]]
    ELSE EmptyDict

\* lines 169-182: the post-pass over input_parameters; d is data, whose
\* section objects are those of raw (d = dict(raw_data))
PostPass(raw, d, h, cmts) ==
    IF input_parameters_name \in DOMAIN raw /\ IsDict(raw[input_parameters_name])
    THEN LET rawsec   == h[raw[input_parameters_name].id]
             present  == IF input_parameters_name \in DOMAIN d
                         THEN DOMAIN h[d[input_parameters_name].id]
                         ELSE {}
             missing  == {key \in DOMAIN rawsec : key \notin present}
             id       == IF input_parameters_name \in DOMAIN d
                         THEN d[input_parameters_name].id
                         ELSE <<"input_parameters", "'">>        \* line 177: a new dict
             old      == IF id \in DOMAIN h THEN h[id] ELSE EmptyDict
             wrapped  == [key \in DOMAIN old \cup missing |->
                            IF key \in missing
                            THEN Enriched(rawsec[key], CommentUnit(cmts, key),
                                          CommentDescription(cmts, key))
                            ELSE old[key]]
         IN  IF missing = {} THEN [data |-> d, heap |-> h]
             ELSE [data |-> Put(d, input_parameters_name, Ref(id)),
                   heap |-> Put(h, id, wrapped)]
    ELSE [data |-> d, heap |-> h]

Unknown == Str(<<"Unknown">>)
NotAvailable == Str(<<"N/A">>)
\* shaker_info.get(key, default)
GetOr(d, key, default) == IF key \in DOMAIN d THEN d[key] ELSE default

\* for ... in sorted(...): try: ... except Exception: print(...)  -- what is
\* left to iterate after the body ended, by raising or not
RemainingFiles_stop_on_error(files, raised) == IF raised THEN <<>> ELSE Tail(files)
RemainingFiles(files, raised) == Tail(files)

\* sorted(input_path.glob('*.toml'))
RECURSIVE sorted(_)
sorted(S) == IF S = {} THEN <<>>
             ELSE LET least == CHOOSE x \in S : \A y \in S : x <= y
                  IN  <<least>> \o sorted(S \ {least})

(***************************************************************************)
(* Specification of a run of process_toml_files                            *)
(***************************************************************************)
manufacturer_key  == <<"manufacturer">>
model_key         == <<"model">>
nominal_force_key == <<"nominal_force">>
mass_key          == <<"mass">>
check_key         == <<"check">>
UnitN       == <<"[", "N", "]", " ", "d">>
Description == <<"d">>

FileFull ==
    << Header(shaker_name),
       Assign(manufacturer_key, Str(<<"B">>)),
       Assign(model_key, Str(<<"V1">>)),
       AssignC(nominal_force_key, Num(<<"1">>), UnitN),
       Header(input_parameters_name),
       Assign(mass_key, Str(<<"float">>)),
       AssignC(<<"k">>, Num(<<"2">>), UnitN),
       Header(additional_checks_name),
       AssignC(check_key, Str(<<"a", " ", ">", "=", " ", "k">>), Description) >>
FileMinimal ==
    << Header(shaker_name),
       Assign(manufacturer_key, Str(<<"A">>)),
       AssignC(nominal_force_key, Num(<<"2">>), UnitN) >>
FileRawForce ==
    << Header(shaker_name),
       Assign(manufacturer_key, Str(<<"A">>)),
       Assign(nominal_force_key, Num(<<"1">>)) >>
FileNoForce ==
    << Header(shaker_name),
       AssignC(manufacturer_key, Str(<<"A">>), Description) >>
FileNoShaker ==
    << Header(input_parameters_name),
       Assign(mass_key, Num(<<"1">>)) >>
FileCommentedManufacturer ==
    << Header(shaker_name),
       AssignC(manufacturer_key, Str(<<"A">>), Description),
       AssignC(nominal_force_key, Num(<<"1">>), UnitN) >>
FileScalarShaker == << Assign(shaker_name, Num(<<"1">>)) >>
FileEmpty == << >>

TomlFiles == {FileFull, FileMinimal, FileRawForce, FileNoForce, FileNoShaker,
              FileCommentedManufacturer, FileScalarShaker, FileEmpty}

\* what the environment makes raise: nothing, tomli.load (malformed file),
\* equipment_template.render, or the copy of an image (lines 221-232)
Faults == {"none", "tomli.load", "render", "copy_images"}
OpenFailure == [raises |-> TRUE, after |-> 0]

Init ==
    /\ pc = "loop"
    /\ toml_files \in SUBSET (1..MaxFiles)
    /\ todo = sorted(toml_files)
    /\ attempted = <<>> /\ written = {} /\ equipment_list = <<>> /\ errors = {}
    /\ index_written = FALSE
    /\ raw_data = EmptyDict /\ data = EmptyDict /\ heap = EmptyDict /\ heap0 = EmptyDict
    /\ reached = "none" /\ additional_checks = EmptyDict
    /\ toml_text = <<>> /\ read_fail = NoFailure /\ comments = EmptyDict
    /\ formula_str = <<>> /\ parsed = Idle

\* lines 150-182 on one file: what tomli.load returns (raw_data, with the
\* section objects as loaded in heap0), comments, data and the section
\* objects after enrich_toml_data and the post-pass, and additional_checks
Pipeline(file, rf) ==
    LET \* 150-151 and 154; a stage is a one-element set, so that the next
        \* stage reads the value of the one before
        read     == {[loaded |-> l, cmts |-> c] :
                        l \in {tomli_load(file)},
                        c \in {parse_toml_comments(Render(file), rf)}}
        \* 157: data = enrich_toml_data(dict(raw_data), comments, ...); dict()
        \* copies the top-level mapping, so data holds the same section objects
        enriched == {[loaded |-> x.loaded, cmts |-> x.cmts, d0 |-> x.loaded.top,
                      h1 |-> enrich_toml_data(x.loaded.top, x.loaded.heap, x.cmts,
                                              {additional_checks_name})] : x \in read}
        \* 160-167 and 170-182
        done     == {[raw_data |-> x.loaded.top, heap0 |-> x.loaded.heap,
                      comments |-> x.cmts,
                      additional_checks |-> ParsedChecks(x.loaded.top, x.h1, x.cmts),
                      post |-> PostPass(x.loaded.top, x.d0, x.h1, x.cmts)] : x \in enriched}
    IN  CHOOSE r \in {[raw_data |-> x.raw_data, heap0 |-> x.heap0, comments |-> x.comments,
                       additional_checks |-> x.additional_checks,
                       data |-> x.post.data, heap |-> x.post.heap] : x \in done} : TRUE
PipelineTable == [file \in TomlFiles, rf \in {NoFailure, OpenFailure} |-> Pipeline(file, rf)]

\* lines 184-241 on the result of lines 150-182: the last statement
\* reached, whether the body raised, whether the HTML page was written, and
\* the entry appended to equipment_list
FileOutcome(toml_file, run, fault) ==
    LET d == run.data
        shaker_scalar == shaker_name \in DOMAIN d /\ ~IsDict(d[shaker_name])
        shaker_info   == IF shaker_name \in DOMAIN d /\ ~shaker_scalar
                         THEN run.heap[d[shaker_name].id] ELSE EmptyDict        \* 185
        manufacturer  == GetOr(shaker_info, manufacturer_key, Unknown)          \* 186
        model         == GetOr(shaker_info, model_key, Unknown)                 \* 187
        nominal_force == GetOr(shaker_info, nominal_force_key, NotAvailable)    \* 188
        last == IF fault = "tomli.load" THEN "tomli.load"
                ELSE IF shaker_scalar THEN "shaker_info.get"
                ELSE IF fault = "render" THEN "render"
                ELSE IF fault = "copy_images" THEN "copy_images"
                ELSE "equipment_list.append"
        raised == last # "equipment_list.append" \/ nominal_force.type # "dict" \* 240
    IN  [last   |-> last,
         raised |-> raised,
         wrote  |-> last \in {"copy_images", "equipment_list.append"},          \* 215-216
         entry  |-> IF raised THEN <<>>
                    ELSE <<[filename |-> toml_file,
                            title |-> PyStr(manufacturer) \o <<" ">> \o PyStr(model),
                            manufacturer |-> manufacturer, model |-> model,
                            nominal_force |-> PyStr(nominal_force.value) \o <<" ">>
                                              \o nominal_force.unit]>>]         \* 235-241

\* One iteration of the loop of lines 147-244 on the next file
ProcessFile ==
    /\ pc = "loop" /\ todo # <<>>
    /\ \E file \in TomlFiles, fault \in Faults, rf \in {NoFailure, OpenFailure} :
       \E run \in {PipelineTable[file, rf]} :
       \E out \in {FileOutcome(Head(todo), run, fault)} :
       \E parsedOk \in {out.last # "tomli.load"} :
            /\ reached' = out.last
            /\ attempted' = Append(attempted, Head(todo))
            /\ toml_text' = Render(file)
            /\ read_fail' = IF parsedOk THEN rf ELSE NoFailure
            /\ comments' = IF parsedOk THEN run.comments ELSE EmptyDict
            /\ raw_data' = IF parsedOk THEN run.raw_data ELSE EmptyDict
            /\ heap0' = IF parsedOk THEN run.heap0 ELSE EmptyDict
            /\ data' = IF parsedOk THEN run.data ELSE EmptyDict
            /\ heap' = IF parsedOk THEN run.heap ELSE EmptyDict
            /\ additional_checks' = IF parsedOk THEN run.additional_checks ELSE EmptyDict
            /\ written' = IF out.wrote THEN written \cup {Head(todo)} ELSE written
            /\ equipment_list' = equipment_list \o out.entry
            /\ errors' = IF out.raised THEN errors \cup {Head(todo)} ELSE errors \* 243-244
            /\ todo' = RemainingFiles(todo, out.raised)
    /\ UNCHANGED <<pc, toml_files, index_written, formulaVars>>

\* equipment_list.sort(key=lambda x: (x['manufacturer'], x['model'])): tuples
\* compare by their first differing component, and only str orders with str
CharCode(c) == CASE c = "A" -> 65 [] c = "B" -> 66 [] c = "Unknown" -> 85
                 [] c = "V1" -> 86 [] OTHER -> 0
RECURSIVE StrLess(_, _)
StrLess(a, b) ==
    IF b = <<>> THEN FALSE
    ELSE IF a = <<>> THEN TRUE
    ELSE IF Head(a) # Head(b) THEN CharCode(Head(a)) < CharCode(Head(b))
    ELSE StrLess(Tail(a), Tail(b))
SortKey(x) == <<x.manufacturer, x.model>>
Orderable(x, y) ==
    LET diff == {i \in 1..2 : x[i] # y[i]}
    IN  diff = {} \/ LET i == CHOOSE j \in diff : \A k \in diff : j <= k
                     IN  x[i].type = "str" /\ y[i].type = "str"
KeyLess(x, y) ==
    LET diff == {i \in 1..2 : x[i] # y[i]}
    IN  diff # {} /\ LET i == CHOOSE j \in diff : \A k \in diff : j <= k
                     IN  StrLess(x[i].text, y[i].text)
IndexOrders(n) == {p \in [1..n -> 1..n] : \A i, j \in 1..n : i # j => p[i] # p[j]}
\* the stable ascending order
SortedBy(list) ==
    LET p == CHOOSE q \in IndexOrders(Len(list)) :
                \A i, j \in 1..Len(list) : i < j =>
                    \/ KeyLess(SortKey(list[q[i]]), SortKey(list[q[j]]))
                    \/ (~KeyLess(SortKey(list[q[j]]), SortKey(list[q[i]])) /\ q[i] < q[j])
    IN  [i \in 1..Len(list) |-> list[p[i]]]
SortRaises(list) ==
    \E i, j \in 1..Len(list) : i # j /\ ~Orderable(SortKey(list[i]), SortKey(list[j]))

\* lines 246-263, no entry: "No TOML files found to process"
NothingToIndex ==
    /\ pc = "loop" /\ todo = <<>> /\ equipment_list = <<>>
    /\ pc' = "done"
    /\ UNCHANGED <<toml_files, todo, attempted, written, equipment_list, errors,
                   index_written, docVars, commentVars, formulaVars>>

\* lines 246-261
GenerateIndex ==
    /\ pc = "loop" /\ todo = <<>> /\ equipment_list # <<>>
    /\ ~SortRaises(equipment_list)
    /\ equipment_list' = SortedBy(equipment_list)
    /\ index_written' = TRUE
    /\ pc' = "done"
    /\ UNCHANGED <<toml_files, todo, attempted, written, errors,
                   docVars, commentVars, formulaVars>>

\* line 249 raises TypeError outside any try: the run ends without index.html;
\* list.sort leaves the entries in the list, in an order it does not promise
SortAborts ==
    /\ pc = "loop" /\ todo = <<>> /\ equipment_list # <<>>
    /\ SortRaises(equipment_list)
    /\ \E p \in IndexOrders(Len(equipment_list)) :
         equipment_list' = [i \in 1..Len(equipment_list) |-> equipment_list[p[i]]]
    /\ pc' = "aborted"
    /\ UNCHANGED <<toml_files, todo, attempted, written, errors, index_written,
                   docVars, commentVars, formulaVars>>

Next == ProcessFile \/ NothingToIndex \/ GenerateIndex \/ SortAborts
Spec == Init /\ [][Next]_vars

(***************************************************************************)
(* Specification of the formula parser alone                               *)
(***************************************************************************)
FormulaChars == {"a", " ", ">", "<", "=", "!"}
FormulaStrings == UNION {[1..n -> FormulaChars] : n \in 0..MaxLen}


InitFormula ==
    /\ pc = "formula"
    /\ formula_str \in FormulaStrings
    /\ parsed = Idle
    /\ toml_text = <<>> /\ read_fail = NoFailure /\ comments = Idle
    /\ raw_data = Idle /\ data = Idle /\ heap = Idle /\ heap0 = Idle /\ reached = "none"
    /\ additional_checks = Idle
    /\ toml_files = {} /\ todo = <<>> /\ attempted = <<>> /\ written = {} /\ equipment_list = <<>>
    /\ errors = {} /\ index_written = FALSE

ParseFormula ==
    /\ pc = "formula"
    /\ parsed' = parse_check_formula(Str(formula_str))
    /\ pc' = "formula_done"
    /\ UNCHANGED <<formula_str, commentVars, docVars, runVars>>

NextFormula == ParseFormula
SpecFormula == InitFormula /\ [][NextFormula]_vars

(***************************************************************************)
(* Specification of the comment extractor alone                            *)
(***************************************************************************)

LineKeys   == {<<"k">>, <<"m">>}
LineValues == {<<"1">>, <<"\"", "#", "f", "\"">>}
LineUnits  == {<<"N">>, <<" ", "N", " ">>}
LineDescs  == {<<"d">>}
LineGaps   == {<<" ">>}

BracketLines == {AssignLine(k, v, sp, BracketComment(u, d)) :
                    k \in LineKeys, v \in LineValues, sp \in LineGaps,
                    u \in LineUnits, d \in LineDescs}
PlainLines   == {AssignLine(k, v, <<" ">>, d) : k \in LineKeys, v \in LineValues, d \in LineDescs}
OtherLines   == {<<"k", " ", "=", " ", "1">>,                 \* no comment
                 <<"#", " ", "d">>,                           \* comment on its own line
                 <<"[", "s", "]">>,                           \* section header
                 <<"k", "=", "1", "#", "[", "N", "]", "d">>,  \* no blanks at all
                 <<"k", " ", "=", " ", "1", " ", "#", " ">>}  \* empty comment
CommentLines == BracketLines \cup PlainLines \cup OtherLines

TextFiles == UNION {[1..n -> CommentLines] : n \in 0..MaxLines}
ReadFailures(text) ==
    {NoFailure} \cup {[raises |-> TRUE, after |-> n] : n \in 0..(IF Len(text) = 0 THEN 0 ELSE Len(text) - 1)}

InitComments ==
    /\ pc = "comments"
    /\ toml_text \in TextFiles
    /\ read_fail \in ReadFailures(toml_text)
    /\ comments = EmptyDict
    /\ formula_str = <<>> /\ parsed = Idle
    /\ raw_data = Idle /\ data = Idle /\ heap = Idle /\ heap0 = Idle /\ reached = "none"
    /\ additional_checks = Idle
    /\ toml_files = {} /\ todo = <<>> /\ attempted = <<>> /\ written = {} /\ equipment_list = <<>>
    /\ errors = {} /\ index_written = FALSE

ParseComments ==
    /\ pc = "comments"
    /\ comments' = parse_toml_comments(toml_text, read_fail)
    /\ pc' = "comments_done"
    /\ UNCHANGED <<toml_text, read_fail, formulaVars, docVars, runVars>>

NextComments == ParseComments
SpecComments == InitComments /\ [][NextComments]_vars

(***************************************************************************)
(* Specification of the section enricher alone: enrich_toml_data is called *)
(* on a document, and once more on its own result.                         *)
(***************************************************************************)
EnrichKeys   == {<<"k">>, <<"m">>}
EnrichValues == {Num(<<"1">>), Str(<<"d">>)}
\* every dict over a subset of the keys
DictsOver(keys, values) == UNION {[ks -> values] : ks \in SUBSET keys}
EnrichSections == {<<"s">>, additional_checks_name}
\* a document: every subset of the sections, each a table; "top" may be a
\* top-level scalar key
EnrichHeaps == UNION {[ss -> DictsOver(EnrichKeys, EnrichValues)] : ss \in SUBSET EnrichSections}
TopOf(h, withScalar) ==
    [n \in DOMAIN h \cup (IF withScalar THEN {<<"top">>} ELSE {}) |->
        IF n \in DOMAIN h THEN Ref(n) ELSE Num(<<"2">>)]
EnrichMetas == {[unit |-> <<"N">>, description |-> <<"d">>],
                [unit |-> <<>>, description |-> <<"d">>]}
EnrichComments == DictsOver(EnrichKeys, EnrichMetas)

InitEnrich ==
    /\ pc = "enrich"
    /\ heap0 \in EnrichHeaps
    /\ heap = heap0
    /\ \E withScalar \in BOOLEAN : data = TopOf(heap0, withScalar)
    /\ raw_data = data
    /\ comments \in EnrichComments
    /\ reached = "none" /\ additional_checks = EmptyDict
    /\ formula_str = <<>> /\ parsed = Idle
    /\ toml_text = <<>> /\ read_fail = NoFailure
    /\ toml_files = {} /\ todo = <<>> /\ attempted = <<>> /\ written = {} /\ equipment_list = <<>>
    /\ errors = {} /\ index_written = FALSE

Enrich ==
    /\ pc = "enrich"
    /\ heap' = enrich_toml_data(data, heap, comments, default_exclude_sections)
    /\ pc' = "enriched"
    /\ UNCHANGED <<data, raw_data, heap0, reached, additional_checks, comments,
                   toml_text, read_fail, formulaVars, runVars>>

EnrichAgain ==
    /\ pc = "enriched"
    /\ heap' = enrich_toml_data(data, heap, comments, default_exclude_sections)
    /\ pc' = "enriched_twice"
    /\ UNCHANGED <<data, raw_data, heap0, reached, additional_checks, comments,
                   toml_text, read_fail, formulaVars, runVars>>

NextEnrich == Enrich \/ EnrichAgain
SpecEnrich == InitEnrich /\ [][NextEnrich]_vars

(***************************************************************************)
(* Properties                                                              *)
(***************************************************************************)
Occurs(s, op) == \E i \in 1..(Len(s) - Len(op) + 1) : SubSeq(s, i, i + Len(op) - 1) = op
FirstAt(s, op) == CHOOSE i \in 1..(Len(s) - Len(op) + 1) :
                     /\ SubSeq(s, i, i + Len(op) - 1) = op
                     /\ \A j \in 1..(i - 1) : SubSeq(s, j, j + Len(op) - 1) # op
\* t is s without its leading and trailing whitespace
IsTrimOf(t, s) ==
    \E i \in 1..(Len(s) + 1), j \in 0..Len(s) :
        /\ t = SubSeq(s, i, j)
        /\ \A n \in 1..(i - 1) : s[n] \in Whitespace
        /\ \A n \in (j + 1)..Len(s) : s[n] \in Whitespace
        /\ t = <<>> \/ (t[1] \notin Whitespace /\ t[Len(t)] \notin Whitespace)
Priority == << <<">", "=">>, <<"<", "=">>, <<"=", "=">>, <<"!", "=">>, <<">">>, <<"<">> >>

LoopFinished == todo = <<>> /\ attempted # <<>>
IndexedFiles == {equipment_list[i].filename : i \in 1..Len(equipment_list)}

\* C1: every file is attempted exactly once, in ascending filename order,
\* whatever files raise; and a file whose processing did not raise has its
\* HTML page written and its entry in equipment_list.
C1_EveryFileAttempted ==
    /\ \A i, j \in 1..Len(attempted) : i < j => attempted[i] < attempted[j]
    /\ \A i \in 1..Len(attempted) : attempted[i] \in toml_files
    /\ todo = <<>> => \A f \in toml_files : \E i \in 1..Len(attempted) : attempted[i] = f
    /\ \A i \in 1..Len(attempted) :
          attempted[i] \notin errors =>
              attempted[i] \in written /\ attempted[i] \in IndexedFiles
    /\ \A i \in 1..Len(todo) : \A j \in 1..Len(attempted) : attempted[j] < todo[i]
C1_Witness ==
    /\ pc = "done"
    /\ \E f \in errors, g \in written \ errors : f < g /\ g \in IndexedFiles

\* C2: at the end of the run the files with a written HTML page are the
\* files with an index entry, and no file with a reported error is among them.
C2_NoOutputForFailedFile ==
    LoopFinished => written = IndexedFiles /\ written \cap errors = {}

\* C3: after the per-file step every key of input_parameters is an
\* EnrichedValue around its raw value, with the unit and description of its
\* comment, or with '' and '' when it has no comment.
PastPostPass == reached \in {"shaker_info.get", "render", "copy_images", "equipment_list.append"}
C3_InputParametersWrapped ==
    (PastPostPass /\ input_parameters_name \in DOMAIN data) =>
        LET id == data[input_parameters_name].id
        IN  \A key \in DOMAIN heap[id] :
                heap[id][key] = Enriched(heap0[id][key], CommentUnit(comments, key),
                                         CommentDescription(comments, key))

\* C4: enriching an enriched document again with the same metadata changes
\* nothing and wraps no EnrichedValue in another one.
C4_EnrichIdempotent ==
    pc = "enriched_twice" =>
        /\ heap = enrich_toml_data(data, heap0, comments, default_exclude_sections)
        /\ \A id \in DOMAIN heap : \A key \in DOMAIN heap[id] :
              heap[id][key].type = "dict" => heap[id][key].value.type # "dict"

\* C5: a formula holding a comparator is split at the first occurrence of the
\* first comparator, in the order >=, <=, ==, !=, >, <, that occurs in it;
\* left and right are the trimmed parts, full the trimmed input; a formula
\* holding >= is never split at >.
C5_SplitAtFirstByPriority ==
    pc = "formula_done" =>
        LET present == {i \in 1..Len(Priority) : Occurs(formula_str, Priority[i])}
        IN  present # {} =>
              LET first == CHOOSE i \in present : \A j \in present : i <= j
                  op    == Priority[first]
                  at    == FirstAt(formula_str, op)
              IN  /\ parsed.operator = op
                  /\ IsTrimOf(parsed.left, SubSeq(formula_str, 1, at - 1))
                  /\ IsTrimOf(parsed.right,
                              SubSeq(formula_str, at + Len(op), Len(formula_str)))
                  /\ IsTrimOf(parsed.full, formula_str)
                  /\ Occurs(formula_str, <<">", "=">>) => parsed.operator # <<">">>
C5_Witness ==
    /\ pc = "formula_done"
    /\ parsed.operator = <<">", "=">>
    /\ Occurs(formula_str, <<"<">>)
    /\ FirstAt(formula_str, <<"<">>) < FirstAt(formula_str, <<">", "=">>)

\* C6: a formula holding none of the six comparators yields operator None,
\* right None and left = full = the trimmed input; and operator None is
\* returned for such formulas only.
NoComparator(s) == \A i \in 1..Len(Priority) : ~Occurs(s, Priority[i])
C6_NoComparatorNoOperator ==
    pc = "formula_done" =>
        /\ NoComparator(formula_str) =>
              /\ parsed.operator = None /\ parsed.right = None
              /\ parsed.left = parsed.full
              /\ IsTrimOf(parsed.full, formula_str)
        /\ parsed.operator = None => NoComparator(formula_str)
C6_Witness ==
    /\ pc = "formula_done"
    /\ parsed.operator = None
    /\ Len(parsed.full) > 0 /\ Len(parsed.full) < Len(formula_str)

\* C7: when open() or a read raises, parse_toml_comments returns an empty
\* mapping, also when lines were scanned before the failure.
C7_FailureReturnsEmpty ==
    (pc = "comments_done" /\ read_fail.raises) => DOMAIN comments = {}

\* C8: in an included section a key absent from CommentMetadata keeps its
\* value, a key present in it becomes {value: original, unit, description} of
\* its entry; sections and keys stay the same, excluded sections untouched.
C8_OnlyCommentedKeysWrapped ==
    pc = "enriched" =>
        /\ data = raw_data
        /\ DOMAIN heap = DOMAIN heap0
        /\ \A id \in DOMAIN heap :
              /\ DOMAIN heap[id] = DOMAIN heap0[id]
              /\ \A key \in DOMAIN heap[id] :
                    IF id \notin default_exclude_sections /\ key \in DOMAIN comments
                    THEN heap[id][key] = Enriched(heap0[id][key], comments[key].unit,
                                                  comments[key].description)
                    ELSE heap[id][key] = heap0[id][key]
C8_Witness ==
    /\ pc = "enriched"
    /\ \E id \in DOMAIN heap \ default_exclude_sections :
          \E k1 \in DOMAIN heap[id], k2 \in DOMAIN heap[id] :
              /\ k1 \in DOMAIN comments /\ heap[id][k1].type = "dict"
              /\ k2 \notin DOMAIN comments /\ heap[id][k2] = heap0[id][k2]

\* C9: enrich_toml_data called on dict(raw_data) leaves raw_data as loaded:
\* every section of raw_data still maps each key to its raw value.
C9_RawDocumentUnchanged ==
    reached \notin {"none", "tomli.load"} =>
        \A n \in DOMAIN raw_data :
            raw_data[n].type = "ref" => heap[raw_data[n].id] = heap0[raw_data[n].id]

\* C10: a line  key = value # [unit] description  records for key the
\* bracketed text as unit and the rest as description, both trimmed, for
\* every value text and every unit text.
C10_BracketCommentExact ==
    (pc = "comments_done" /\ ~read_fail.raises /\ Len(toml_text) > 0) =>
        \A k \in LineKeys, v \in LineValues, sp \in LineGaps, u \in LineUnits, d \in LineDescs :
            toml_text[Len(toml_text)] = AssignLine(k, v, sp, BracketComment(u, d)) =>
                /\ k \in DOMAIN comments
                /\ IsTrimOf(comments[k].unit, u)
                /\ IsTrimOf(comments[k].description, d)

====
